---- MODULE Spec2Model ----
(***************************************************************************)
(* Job orchestration core of the batch poster generation pipeline:         *)
(* JobManager (dispatcher, worker, cancel), DatabaseService (Store),       *)
(* RedPandaClient (Bus) and the event publishing side of SSEManager.       *)
(* One job is followed from submission to its end.  Every await of the     *)
(* code is one step, so that the dispatcher, the processing task, the      *)
(* cancel request, the offset commit and a process restart interleave as   *)
(* they can on the event loop.                                             *)
(***************************************************************************)
EXTENDS Integers, Sequences, FiniteSets, TLC

\* ---- bounds of the model ----
MaxItems == 2        \* largest number of identifiers / rows of a submission
MaxCrashes == 1      \* restarts of the process that hosts the consumer
MaxCancels == 1      \* calls of the cancel endpoint
MaxLen == 3          \* longest identifier text of a submission that is parsed
MaxConns == 2        \* stream requests that are followed through SSEManager
MaxBroadcasts == 2   \* calls of _broadcast_local
MaxPosters == 2      \* largest number of posters of a save request
MaxEnvelopes == 3    \* envelopes of different jobs on the requests topic
MaxCallers == 2      \* calls that enter SSEManager.initialize: one worker, then clients
MaxRenders == 3      \* items of a batch that call html_to_png concurrently

\* ---- program constants ----
BATCH_SIZE == 8
SingleTotal == 3

Kinds == {"html", "csv", "single"}
Terminal == {"completed", "failed", "cancelled"}
TerminalEvents == {"job_completed", "job_failed"}

VARIABLES
    job,            \* the batch_jobs row of the job
    posters,        \* the generated_posters rows of the job, in insertion order
    d,              \* the create_*_job call of the dispatcher
    topic,          \* the requests topic and the consumer group's offsets
    consumerAlive,  \* the consume() loop of start_consumer is running
    active,         \* job_id in JobManager._active_jobs
    w,              \* the task that runs _process_job / _process_csv_job / _process_single_ai_job
    c,              \* the cancel request (router cancel_job + JobManager.cancel_job)
    events,         \* events handed to SSEManager.broadcast_to_job, in publish order
    crashes,        \* number of process restarts so far
    g,              \* the stream request of one client (stream_job_progress)
    request,        \* the submission: its kind and the body the client sent
    hub,            \* SSEManager: its two registries, the connections and a broadcast
    save,           \* the save job of save_bulk_posters: save_jobs[job_id] and its tasks
    q,              \* the consume() loop of one process over the envelopes of several jobs
    fed,            \* SSEManager of one process and the Redis channel sse_events
    converter       \* HTMLToImageConverter of one process and the calls of html_to_png

vars == <<job, posters, d, topic, consumerAlive, active, w, c, events, crashes, g,
          request, hub, save, q, fed, converter>>

\* ---- Store: batch_jobs ----
NoJob == [status |-> "none", total |-> 0, processed |-> 0, success |-> 0,
          failure |-> 0, started_at |-> FALSE, completed_at |-> FALSE,
          error_message |-> FALSE]

\* INSERT INTO batch_jobs (... status 'pending', total_items ...)
create_batch_job(total) == [NoJob EXCEPT !.status = "pending", !.total = total]

None == <<>>

\* UPDATE batch_jobs SET status = $2 [, started_at | completed_at] [, counters] [, error_message]
update_job_status(j, status, counters, err) ==
    [j EXCEPT !.status = status,
              !.started_at = IF status = "processing" THEN TRUE ELSE @,
              !.completed_at = IF status \in {"completed", "failed"} THEN TRUE ELSE @,
              !.processed = IF counters # None THEN counters[1] ELSE @,
              !.success = IF counters # None THEN counters[2] ELSE @,
              !.failure = IF counters # None THEN counters[3] ELSE @,
              !.error_message = IF err THEN TRUE ELSE @]

\* ---- Store: generated_posters ----
\* INSERT INTO generated_posters (... status 'pending') RETURNING id
create_poster_record(rows, item) == Append(rows, [item |-> item, status |-> "pending"])

\* UPDATE generated_posters SET status = $2 WHERE id = $1
update_poster_status(rows, poster_id, status) == [rows EXCEPT ![poster_id].status = status]

\* ---- EventHub: what broadcast_to_job is given ----
Event(name, item, n, ok) == [name |-> name, item |-> item, n |-> n, ok |-> ok]
send_log == Event("log", 0, 0, TRUE)
send_progress(processed) == Event("progress", 0, processed, TRUE)
send_poster_completed(item, success) == Event("poster_completed", item, 0, success)
send_job_completed == Event("job_completed", 0, 0, TRUE)
send_job_failed == Event("job_failed", 0, 0, FALSE)

\* ---- the processing task ----
\* bus is what the routine has put on the bus at its end: a message on the results
\* topic, a message on the errors topic, nothing, or a publish that returned False
IdleW == [pc |-> "idle", path |-> "none", n |-> 0, idx |-> 0, off |-> 0,
          profiles |-> <<>>, batch |-> <<>>, tasks |-> <<>>, rows |-> <<>>,
          processed |-> 0, success_count |-> 0, failure_count |-> 0, stale |-> FALSE,
          bus |-> "none"]

StartW(pc, path, n, stale) == [IdleW EXCEPT !.pc = pc, !.path = path, !.n = n, !.stale = stale]

\* first pc of the routine that _handle_job_message picks for a job_type
HandlerRoutine(kind) == IF kind = "csv" THEN "csv_set_processing" ELSE "set_processing"

\* first pc of the routine the dispatcher starts itself when the publish failed
FallbackRoutine(kind) ==
    CASE kind = "csv" -> "csv_set_processing"
      [] kind = "single" -> "ai_set_processing"
      [] OTHER -> "set_processing"

\* number of identifiers / rows the envelope of a job carries for its routine
EnvelopeItems(kind, n) == IF kind = "single" THEN 0 ELSE n

IdleC == [pc |-> "idle", saw |-> "none", calls |-> 0]

\* StatusPayload with the counters left at 0
StatusPayload_NoCounters(j) ==
    [status |-> j.status, processed |-> 0, total |-> j.total,
     success_count |-> 0, failure_count |-> 0]

\* the payload of the status event: status and counters of the row that was read
StatusPayload(j) ==
    [status |-> j.status, processed |-> j.processed, total |-> j.total,
     success_count |-> j.success, failure_count |-> j.failure]

\* no stream request yet: seen is the number of events published before the
\* connection was registered, next the index of the next queued event, beats the
\* heartbeat_count modulo 6, waited the time the template stream has waited (in
\* poll intervals), synth the event the generator made up itself
IdleG == [pc |-> "idle", status |-> StatusPayload(NoJob), seen |-> 0, next |-> 1,
          beats |-> 0, waited |-> 0, synth |-> "none"]

\* ---- TopmateClient: parse_user_identifiers ----
\* the characters of an identifier text: the two separators, a blank, a letter and
\* a digit
Chars == {",", "\n", " ", "a", "7"}
Digits == {"7"}

\* str.replace("\n", ",")
replace_newlines(s) == [i \in DOMAIN s |-> IF s[i] = "\n" THEN "," ELSE s[i]]

\* str.split(","): the pieces between the commas, empty pieces included
RECURSIVE split(_)
split(s) ==
    IF \A i \in DOMAIN s : s[i] # ","
    THEN <<s>>
    ELSE LET k == CHOOSE i \in DOMAIN s : s[i] = "," /\ \A m \in 1..(i - 1) : s[m] # ","
         IN <<SubSeq(s, 1, k - 1)>> \o split(SubSeq(s, k + 1, Len(s)))

\* str.strip() that strips nothing
strip_Nothing(s) == s

\* str.strip(): leading and trailing blanks are removed
strip(s) ==
    IF \A i \in DOMAIN s : s[i] = " "
    THEN <<>>
    ELSE LET first == CHOOSE i \in DOMAIN s : s[i] # " " /\ \A m \in 1..(i - 1) : s[m] = " "
             last == CHOOSE i \in DOMAIN s : s[i] # " " /\ \A m \in (i + 1)..Len(s) : s[m] = " "
         IN SubSeq(s, first, last)

\* str.isdigit(): not empty and digits only
isdigit(s) == s # <<>> /\ \A i \in DOMAIN s : s[i] \in Digits

\* int(item) of a string of digits
RECURSIVE int(_)
int(s) == IF s = <<>> THEN 0 ELSE 10 * int(SubSeq(s, 1, Len(s) - 1)) + 7

\* items: the stripped pieces that are not empty, in input order
identifier_items(input_str) ==
    LET pieces == split(replace_newlines(input_str))
        stripped == [i \in DOMAIN pieces |-> strip(pieces[i])]
    IN SelectSeq(stripped, LAMBDA item : item # <<>>)

\* the items that are digits go to user_ids as numbers, the others to usernames
parse_user_identifiers(input_str) ==
    LET items == identifier_items(input_str)
        ids == SelectSeq(items, isdigit)
    IN [usernames |-> SelectSeq(items, LAMBDA item : ~isdigit(item)),
        user_ids |-> [i \in DOMAIN ids |-> int(ids[i])]]

\* ---- the submissions that are followed ----
\* an identifier text of n distinct usernames: a,aa,aaa,...
RECURSIVE IdentifierText(_)
IdentifierText(n) ==
    IF n = 0 THEN <<>>
    ELSE (IF n = 1 THEN <<>> ELSE IdentifierText(n - 1) \o <<",">>) \o [i \in 1..n |-> "a"]

\* every text of at most n characters
Texts(n) == UNION {[1..k -> Chars] : k \in 0..n}

HtmlRequest(text) == [kind |-> "html", user_identifiers |-> text, csv_data |-> 0]
CsvRequest(rows) == [kind |-> "csv", user_identifiers |-> <<>>, csv_data |-> rows]
SingleRequest == [kind |-> "single", user_identifiers |-> <<>>, csv_data |-> 0]
TemplateRequest == [kind |-> "template", user_identifiers |-> <<>>, csv_data |-> 0]
\* no job is submitted
NoRequest == [kind |-> "none", user_identifiers |-> <<>>, csv_data |-> 0]

\* one submission per kind and number of items
Requests ==
    {HtmlRequest(IdentifierText(n)) : n \in 0..MaxItems}
        \cup {CsvRequest(rows) : rows \in 0..MaxItems}
        \cup {SingleRequest, TemplateRequest}

\* every identifier text up to MaxLen characters, every row list, and the single job
ParsedRequests ==
    {HtmlRequest(text) : text \in Texts(MaxLen)}
        \cup {CsvRequest(rows) : rows \in 0..MaxItems}
        \cup {SingleRequest}

\* total_items of the submission
total_items(req) ==
    IF req.kind = "html"
    THEN LET parsed == parse_user_identifiers(req.user_identifiers)
         IN Len(parsed.usernames) + Len(parsed.user_ids)
    ELSE IF req.kind = "csv" THEN req.csv_data ELSE SingleTotal

\* ---- SSEManager: the registries and the connections ----
Conns == 1..MaxConns

\* _connections has no key for the job (has_key) and _connection_map is empty; no
\* connection object exists (stream "idle"), no broadcast is under way.
\* connections is the set _connections[job_id] when the key is there.  refused
\* holds the connections on which a send found _closed set.
IdleHub ==
    [has_key |-> FALSE, connections |-> {}, connection_map |-> {},
     closed |-> [cid \in Conns |-> FALSE],
     queue |-> [cid \in Conns |-> <<>>],
     stream |-> [cid \in Conns |-> "idle"],
     b |-> [pc |-> "idle", snapshot |-> {}, event |-> "none", calls |-> 0],
     refused |-> {}]

\* ---- save_bulk_posters: the save job ----
\* userId of a SavePosterItem after its validator: None (written -1) or a number
NoneId == 0 - 1
UserIds == {NoneId, 0, 7}

\* the posters of a save request: the userId and whether posterUrl is a data URL
SavePosterItems == [userId : UserIds, data_url : BOOLEAN]
SaveRequests == UNION {[1..k -> SavePosterItems] : k \in 0..MaxPosters}

\* no save job yet.  task is the position of _process_save_job, pc[i] the position of
\* _process_single_save of poster i, failures and results the lists of the job (by
\* poster), details the rows of poster_failure_details, uploads and webhooks the
\* posters for which upload_image / store_poster_to_django was called
IdleSave ==
    [status |-> "none", total |-> 0, processed |-> 0, success |-> 0, failed |-> 0,
     results |-> <<>>, failures |-> <<>>, logs |-> <<>>,
     posters |-> <<>>, task |-> "none", batch_idx |-> 0, pc |-> <<>>,
     details |-> <<>>, uploads |-> {}, webhooks |-> {}]

\* ---- the consumer loop over several envelopes ----
Envelopes == 1..MaxEnvelopes

\* nothing is published; the loop waits for its next message.  tasks[id] is the task
\* that _handle_job_message creates for envelope id, active is _active_jobs, cancels
\* the number of cancel_job calls
IdleQ ==
    [published |-> 0, position |-> 0, loop |-> "next",
     tasks |-> [id \in Envelopes |-> "none"], active |-> {}, cancels |-> 0]

\* ---- SSEManager with Redis: initialize, broadcast_to_job, _redis_subscriber ----
\* caller 1 is the routine of a job (broadcast_to_job), the others are stream
\* requests (connect)
Callers == 1..MaxCallers

\* the manager of a process that has not been initialized.  pubsub is the PubSub
\* object self._pubsub refers to (named by the caller that made it), subscribed the
\* PubSub objects that are subscribed to sse_events, inbox the messages Redis has
\* sent to each of them, tasks[p] the subscriber task that caller p created ("none",
\* "created", "listening") and listens[p] the PubSub object it listens on, queue[p]
\* the queue of the
\* connection of caller p, published the number of events the routine has published
IdleFed ==
    [initialized |-> FALSE, redis_client |-> 0, pubsub |-> 0,
     subscribed |-> {}, inbox |-> [b \in Callers |-> <<>>],
     tasks |-> [p \in Callers |-> "none"], listens |-> [p \in Callers |-> 0],
     pc |-> [p \in Callers |-> "idle"],
     registered |-> {}, queue |-> [p \in Callers |-> <<>>],
     published |-> 0]

\* ---- HTMLToImageConverter ----
Renders == 1..MaxRenders

\* _browser and _playwright are None (0); launched are the browsers that were
\* launched, named by the call that launched them
IdleConverter ==
    [browser |-> 0, playwright |-> 0, launched |-> {},
     pc |-> [i \in Renders |-> "idle"]]

\* the state after construction, with a submission taken from reqs about to be made
InitWith(reqs) ==
    /\ job = NoJob
    /\ posters = <<>>
    /\ d = [pc |-> "idle", kind |-> "html", n |-> 0]
    /\ topic = [published |-> FALSE, position |-> 0, committed |-> 0, deliveries |-> 0]
    /\ consumerAlive = TRUE
    /\ active = FALSE
    /\ w = IdleW
    /\ c = IdleC
    /\ events = <<>>
    /\ crashes = 0
    /\ g = IdleG
    /\ request \in reqs
    /\ hub = IdleHub
    /\ save = IdleSave
    /\ q = IdleQ
    /\ fed = IdleFed
    /\ converter = IdleConverter

Init == InitWith(Requests)

\* the submission is any identifier text up to MaxLen characters, any row list or
\* the single job
InitParsed == InitWith(ParsedRequests)

\* ---- Dispatcher: create_job / create_csv_job / create_single_job ----
\* total_items is computed, an empty submission is rejected, the row is inserted
\* and the creation is logged
Submit ==
    /\ d.pc = "idle"
    /\ request.kind \in Kinds
    /\ LET total == total_items(request) IN
        IF total = 0
        THEN /\ d' = [pc |-> "rejected", kind |-> request.kind, n |-> total]
             /\ job' = job
        ELSE /\ d' = [pc |-> "publish", kind |-> request.kind, n |-> total]
             /\ job' = create_batch_job(total)
    /\ UNCHANGED <<posters, topic, consumerAlive, active, w, c, events, crashes, g, request, hub, save, q, fed, converter>>

\* publish_job returned True: the envelope is on the requests topic
DispatchPublishOk ==
    /\ d.pc = "publish"
    /\ topic' = [topic EXCEPT !.published = TRUE]
    /\ d' = [d EXCEPT !.pc = "write_queued"]
    /\ UNCHANGED <<job, posters, consumerAlive, active, w, c, events, crashes, g, request, hub, save, q, fed, converter>>

\* publish_job returned False: the routine is started with asyncio.create_task
DispatchPublishFail ==
    /\ d.pc = "publish"
    /\ w.pc = "idle"
    /\ w' = StartW(FallbackRoutine(d.kind), "sync", EnvelopeItems(d.kind, d.n), FALSE)
    /\ d' = [d EXCEPT !.pc = "done"]
    /\ UNCHANGED <<job, posters, topic, consumerAlive, active, c, events, crashes, g, request, hub, save, q, fed, converter>>

\* update_job_status(job_id, "queued"), then the queueing is logged
DispatchWriteQueued ==
    /\ d.pc = "write_queued"
    /\ job' = update_job_status(job, "queued", None, FALSE)
    /\ d' = [d EXCEPT !.pc = "done"]
    /\ UNCHANGED <<posters, topic, consumerAlive, active, w, c, events, crashes, g, request, hub, save, q, fed, converter>>

\* ---- Bus consumer: start_consumer.consume and _handle_job_message ----
\* the consumer hands the envelope to the handler, which creates the task
Deliver ==
    /\ consumerAlive
    /\ topic.published
    /\ topic.position = 0
    /\ w.pc = "idle"
    /\ topic' = [topic EXCEPT !.position = 1, !.deliveries = @ + 1]
    /\ w' = StartW(HandlerRoutine(d.kind), "bus", EnvelopeItems(d.kind, d.n),
                   job.status \in Terminal)
    /\ active' = TRUE
    /\ UNCHANGED <<job, posters, d, consumerAlive, c, events, crashes, g, request, hub, save, q, fed, converter>>

\* the last await of the task has returned and the task has ended: await task
\* returns, finally pops _active_jobs
HandlerReturn ==
    /\ w.pc = "done"
    /\ w.path = "bus"
    /\ w' = IdleW
    /\ active' = FALSE
    /\ UNCHANGED <<job, posters, d, topic, consumerAlive, c, events, crashes, g, request, hub, save, q, fed, converter>>

\* the process dies and is started again: tasks and _active_jobs are lost and the
\* consumer resumes from the committed offset; with enable_auto_commit the offset of
\* a fetched envelope has been committed by the timer, or not yet
Crash ==
    /\ crashes < MaxCrashes
    /\ job.status # "none"
    /\ crashes' = crashes + 1
    /\ w' = IdleW
    /\ active' = FALSE
    /\ consumerAlive' = TRUE
    /\ \E committed \in {topic.committed, topic.position} :
        topic' = [topic EXCEPT !.committed = committed, !.position = committed]
    /\ d' = [d EXCEPT !.pc = IF @ \in {"idle", "rejected"} THEN @ ELSE "done"]
    /\ c' = [c EXCEPT !.pc = "idle", !.saw = "none"]
    /\ UNCHANGED <<job, posters, events, g, request, hub, save, q, fed, converter>>

\* ---- Worker: _process_job ----
Min(a, b) == IF a < b THEN a ELSE b

\* the items of the batch that starts at offset off: profiles[i:i + BATCH_SIZE]
BatchOf(profiles, off) == SubSeq(profiles, off + 1, Min(off + BATCH_SIZE, Len(profiles)))

\* CountResult with the failure branch leaving failure_count alone
CountResult_NoFailure(t, ok) ==
    [t EXCEPT !.processed = @ + 1,
              !.success_count = IF ok THEN @ + 1 ELSE @]

\* the counting of one gathered result: processed += 1, then success or failure += 1
CountResult(t, ok) ==
    [t EXCEPT !.processed = @ + 1,
              !.success_count = IF ok THEN @ + 1 ELSE @,
              !.failure_count = IF ok THEN @ ELSE @ + 1]

\* the counting of a failed profile fetch: failure_count += 1, processed += 1
CountFetchFailure(t) == [t EXCEPT !.failure_count = @ + 1, !.processed = @ + 1]

Counters(t) == <<t.processed, t.success_count, t.failure_count>>

\* where the identifier loops go after identifier idx
AfterFetch(t) == IF t.idx + 1 <= t.n THEN "fetch_log" ELSE "log_fetched"

\* update_job_status(job_id, "processing")
ProcSetProcessing ==
    /\ w.pc = "set_processing"
    /\ job' = update_job_status(job, "processing", None, FALSE)
    /\ w' = [w EXCEPT !.pc = "log_started"]
    /\ UNCHANGED <<posters, d, topic, consumerAlive, active, c, events, crashes, g, request, hub, save, q, fed, converter>>

\* send_log("Job processing started"); the locals are set up
ProcLogStarted ==
    /\ w.pc = "log_started"
    /\ events' = Append(events, send_log)
    /\ w' = [w EXCEPT !.idx = 1, !.pc = IF w.n >= 1 THEN "fetch_log" ELSE "log_fetched"]
    /\ UNCHANGED <<job, posters, d, topic, consumerAlive, active, c, crashes, g, request, hub, save, q, fed, converter>>

\* send_log("Fetching profile ...")
ProcFetchLog ==
    /\ w.pc = "fetch_log"
    /\ events' = Append(events, send_log)
    /\ w' = [w EXCEPT !.pc = "fetch"]
    /\ UNCHANGED <<job, posters, d, topic, consumerAlive, active, c, crashes, g, request, hub, save, q, fed, converter>>

\* fetch_topmate_profile / fetch_profile_by_user_id returns or raises
ProcFetch ==
    /\ w.pc = "fetch"
    /\ \/ w' = [w EXCEPT !.profiles = Append(@, w.idx), !.idx = @ + 1, !.pc = AfterFetch(w)]
       \/ w' = [w EXCEPT !.pc = "fetch_warn"]
    /\ UNCHANGED <<job, posters, d, topic, consumerAlive, active, c, events, crashes, g, request, hub, save, q, fed, converter>>

\* send_log("Failed to fetch ..."), then the failure is counted
ProcFetchWarn ==
    /\ w.pc = "fetch_warn"
    /\ events' = Append(events, send_log)
    /\ w' = [CountFetchFailure(w) EXCEPT !.pc = "fetch_progress"]
    /\ UNCHANGED <<job, posters, d, topic, consumerAlive, active, c, crashes, g, request, hub, save, q, fed, converter>>

\* send_progress after a failed fetch
ProcFetchProgress ==
    /\ w.pc = "fetch_progress"
    /\ events' = Append(events, send_progress(w.processed))
    /\ w' = [w EXCEPT !.idx = @ + 1, !.pc = AfterFetch(w)]
    /\ UNCHANGED <<job, posters, d, topic, consumerAlive, active, c, crashes, g, request, hub, save, q, fed, converter>>

\* send_log("Fetched n profiles"), then the batch loop is entered
ProcLogFetched ==
    /\ w.pc = "log_fetched"
    /\ events' = Append(events, send_log)
    /\ w' = [w EXCEPT !.off = 0, !.pc = IF Len(w.profiles) > 0 THEN "batch_log" ELSE "set_completed"]
    /\ UNCHANGED <<job, posters, d, topic, consumerAlive, active, c, crashes, g, request, hub, save, q, fed, converter>>

\* send_log("Processing batch"), then one _generate_single_poster per item is gathered
ProcBatchLog ==
    /\ w.pc = "batch_log"
    /\ events' = Append(events, send_log)
    /\ LET batch == BatchOf(w.profiles, w.off) IN
       w' = [w EXCEPT !.batch = batch,
                      !.tasks = [k \in 1..Len(batch) |-> "new"],
                      !.rows = [k \in 1..Len(batch) |-> 0],
                      !.pc = "gather"]
    /\ UNCHANGED <<job, posters, d, topic, consumerAlive, active, c, crashes, g, request, hub, save, q, fed, converter>>

\* _generate_single_poster: create_poster_record returns the new row's id, or raises
GenerateCreateRecord ==
    /\ w.pc = "gather"
    /\ \E k \in 1..Len(w.batch) :
        /\ w.tasks[k] = "new"
        /\ \/ /\ posters' = create_poster_record(posters, w.batch[k])
              /\ w' = [w EXCEPT !.tasks[k] = "row", !.rows[k] = Len(posters) + 1]
           \/ /\ posters' = posters
              /\ w' = [w EXCEPT !.tasks[k] = "err"]
    /\ UNCHANGED <<job, d, topic, consumerAlive, active, c, events, crashes, g, request, hub, save, q, fed, converter>>

\* _generate_single_poster: fill, rasterize, overlay and upload succeed and the row is
\* set completed, or one of them raises and the exception is re-raised
GeneratePipeline ==
    /\ w.pc = "gather"
    /\ \E k \in 1..Len(w.batch) :
        /\ w.tasks[k] = "row"
        /\ \/ /\ posters' = update_poster_status(posters, w.rows[k], "completed")
              /\ w' = [w EXCEPT !.tasks[k] = "ok"]
           \/ /\ posters' = posters
              /\ w' = [w EXCEPT !.tasks[k] = "err"]
    /\ UNCHANGED <<job, d, topic, consumerAlive, active, c, events, crashes, g, request, hub, save, q, fed, converter>>

\* asyncio.gather(*tasks, return_exceptions=True) returns
ProcGatherReturn ==
    /\ w.pc = "gather"
    /\ \A k \in 1..Len(w.batch) : w.tasks[k] \in {"ok", "err"}
    /\ w' = [w EXCEPT !.idx = 1, !.pc = "poster_completed"]
    /\ UNCHANGED <<job, posters, d, topic, consumerAlive, active, c, events, crashes, g, request, hub, save, q, fed, converter>>

\* one result is counted and send_poster_completed is awaited
ProcPosterCompleted ==
    /\ w.pc = "poster_completed"
    /\ LET ok == w.tasks[w.idx] = "ok" IN
        /\ events' = Append(events, send_poster_completed(w.batch[w.idx], ok))
        /\ w' = [CountResult(w, ok) EXCEPT !.pc = "progress"]
    /\ UNCHANGED <<job, posters, d, topic, consumerAlive, active, c, crashes, g, request, hub, save, q, fed, converter>>

\* send_progress for the result
ProcProgress ==
    /\ w.pc = "progress"
    /\ events' = Append(events, send_progress(w.processed))
    /\ w' = [w EXCEPT !.idx = @ + 1,
                      !.pc = IF w.idx + 1 <= Len(w.batch) THEN "poster_completed" ELSE "batch_update"]
    /\ UNCHANGED <<job, posters, d, topic, consumerAlive, active, c, crashes, g, request, hub, save, q, fed, converter>>

\* update_job_status(job_id, "processing", processed, success_count, failure_count)
ProcBatchUpdate ==
    /\ w.pc = "batch_update"
    /\ job' = update_job_status(job, "processing", Counters(w), FALSE)
    /\ w' = [w EXCEPT !.pc = "sleep"]
    /\ UNCHANGED <<posters, d, topic, consumerAlive, active, c, events, crashes, g, request, hub, save, q, fed, converter>>

\* asyncio.sleep(0.5), then the next batch or the end of the loop
ProcSleep ==
    /\ w.pc = "sleep"
    /\ w' = [w EXCEPT !.off = @ + BATCH_SIZE,
                      !.pc = IF w.off + BATCH_SIZE < Len(w.profiles) THEN "batch_log" ELSE "set_completed"]
    /\ UNCHANGED <<job, posters, d, topic, consumerAlive, active, c, events, crashes, g, request, hub, save, q, fed, converter>>

\* update_job_status(job_id, "completed", processed, success_count, failure_count)
ProcSetCompleted ==
    /\ w.pc = "set_completed"
    /\ job' = update_job_status(job, "completed", Counters(w), FALSE)
    /\ w' = [w EXCEPT !.pc = "log_completed"]
    /\ UNCHANGED <<posters, d, topic, consumerAlive, active, c, events, crashes, g, request, hub, save, q, fed, converter>>

\* add_log("Job completed")
ProcLogCompleted ==
    /\ w.pc = "log_completed"
    /\ w' = [w EXCEPT !.pc = "send_job_completed"]
    /\ UNCHANGED <<job, posters, d, topic, consumerAlive, active, c, events, crashes, g, request, hub, save, q, fed, converter>>

\* send_job_completed
ProcSendJobCompleted ==
    /\ w.pc = "send_job_completed"
    /\ events' = Append(events, send_job_completed)
    /\ w' = [w EXCEPT !.pc = "publish_result"]
    /\ UNCHANGED <<job, posters, d, topic, consumerAlive, active, c, crashes, g, request, hub, save, q, fed, converter>>

\* publish_result puts the result on the results topic, or returns False (client not
\* initialized, send_and_wait raised); the task ends
ProcPublishResult ==
    /\ w.pc = "publish_result"
    /\ \E bus \in {"result", "refused"} : w' = [w EXCEPT !.pc = "done", !.bus = bus]
    /\ UNCHANGED <<job, posters, d, topic, consumerAlive, active, c, events, crashes, g, request, hub, save, q, fed, converter>>

\* a Store call of the try block raises: control goes to the except clause
ProcEnvelopeError ==
    /\ w.pc \in {"set_processing", "batch_update", "set_completed", "log_completed"}
    /\ w' = [w EXCEPT !.pc = "set_failed"]
    /\ UNCHANGED <<job, posters, d, topic, consumerAlive, active, c, events, crashes, g, request, hub, save, q, fed, converter>>

\* except: update_job_status(job_id, "failed", error_message=str(e))
ProcSetFailed ==
    /\ w.pc = "set_failed"
    /\ job' = update_job_status(job, "failed", None, TRUE)
    /\ w' = [w EXCEPT !.pc = "log_failed"]
    /\ UNCHANGED <<posters, d, topic, consumerAlive, active, c, events, crashes, g, request, hub, save, q, fed, converter>>

\* except: add_log("Job failed")
ProcLogFailed ==
    /\ w.pc = "log_failed"
    /\ w' = [w EXCEPT !.pc = "send_job_failed"]
    /\ UNCHANGED <<job, posters, d, topic, consumerAlive, active, c, events, crashes, g, request, hub, save, q, fed, converter>>

\* except: send_job_failed
ProcSendJobFailed ==
    /\ w.pc = "send_job_failed"
    /\ events' = Append(events, send_job_failed)
    /\ w' = [w EXCEPT !.pc = "publish_error"]
    /\ UNCHANGED <<job, posters, d, topic, consumerAlive, active, c, crashes, g, request, hub, save, q, fed, converter>>

\* except: publish_error puts the error on the errors topic, or returns False; the
\* task ends
ProcPublishError ==
    /\ w.pc = "publish_error"
    /\ \E bus \in {"error", "refused"} : w' = [w EXCEPT !.pc = "done", !.bus = bus]
    /\ UNCHANGED <<job, posters, d, topic, consumerAlive, active, c, events, crashes, g, request, hub, save, q, fed, converter>>

\* except: update_job_status or add_log raises as well: the exception leaves the task,
\* nothing more is written or published
ProcHandlerError ==
    /\ w.pc \in {"set_failed", "log_failed"}
    /\ w' = [w EXCEPT !.pc = "done"]
    /\ UNCHANGED <<job, posters, d, topic, consumerAlive, active, c, events, crashes, g, request, hub, save, q, fed, converter>>

process_job ==
    \/ ProcSetProcessing \/ ProcLogStarted \/ ProcFetchLog \/ ProcFetch
    \/ ProcFetchWarn \/ ProcFetchProgress \/ ProcLogFetched \/ ProcBatchLog
    \/ GenerateCreateRecord \/ GeneratePipeline \/ ProcGatherReturn
    \/ ProcPosterCompleted \/ ProcProgress \/ ProcBatchUpdate \/ ProcSleep
    \/ ProcSetCompleted \/ ProcLogCompleted \/ ProcSendJobCompleted \/ ProcPublishResult
    \/ ProcEnvelopeError \/ ProcSetFailed \/ ProcLogFailed \/ ProcSendJobFailed
    \/ ProcPublishError \/ ProcHandlerError

\* ---- Worker: _process_csv_job ----
\* the counting of one row: processed += 1, then success_count or failure_count += 1
CountCsvResult(t, ok) ==
    [t EXCEPT !.processed = @ + 1,
              !.success_count = IF ok THEN @ + 1 ELSE @,
              !.failure_count = IF ok THEN @ ELSE @ + 1]

\* the rows of the batch that starts at offset off: csv_data[i:i + BATCH_SIZE]
CsvBatchOf(n, off) == [k \in 1..(Min(off + BATCH_SIZE, n) - off) |-> off + k]

\* update_job_status(job_id, "processing")
CsvSetProcessing ==
    /\ w.pc = "csv_set_processing"
    /\ job' = update_job_status(job, "processing", None, FALSE)
    /\ w' = [w EXCEPT !.pc = "csv_log_started"]
    /\ UNCHANGED <<posters, d, topic, consumerAlive, active, c, events, crashes, g, request, hub, save, q, fed, converter>>

\* send_log("CSV job processing started"); the locals are set up
CsvLogStarted ==
    /\ w.pc = "csv_log_started"
    /\ events' = Append(events, send_log)
    /\ w' = [w EXCEPT !.off = 0, !.pc = IF w.n > 0 THEN "csv_batch_log" ELSE "csv_set_completed"]
    /\ UNCHANGED <<job, posters, d, topic, consumerAlive, active, c, crashes, g, request, hub, save, q, fed, converter>>

\* send_log("Processing batch"), then the rows of the batch one after the other
CsvBatchLog ==
    /\ w.pc = "csv_batch_log"
    /\ events' = Append(events, send_log)
    /\ w' = [w EXCEPT !.batch = CsvBatchOf(w.n, w.off), !.idx = 1,
                      !.tasks = <<"new">>, !.rows = <<0>>, !.pc = "csv_generate"]
    /\ UNCHANGED <<job, posters, d, topic, consumerAlive, active, c, crashes, g, request, hub, save, q, fed, converter>>

\* _generate_csv_poster: create_poster_record returns the new row's id, or raises
CsvCreateRecord ==
    /\ w.pc = "csv_generate"
    /\ w.tasks[1] = "new"
    /\ \/ /\ posters' = create_poster_record(posters, w.batch[w.idx])
          /\ w' = [w EXCEPT !.tasks[1] = "row", !.rows[1] = Len(posters) + 1]
       \/ /\ posters' = posters
          /\ w' = [w EXCEPT !.tasks[1] = "err", !.pc = "csv_poster_completed"]
    /\ UNCHANGED <<job, d, topic, consumerAlive, active, c, events, crashes, g, request, hub, save, q, fed, converter>>

\* _generate_csv_poster: fill, rasterize, overlay and upload succeed and the row is
\* set completed, or one of them raises
CsvPipeline ==
    /\ w.pc = "csv_generate"
    /\ w.tasks[1] = "row"
    /\ \/ /\ posters' = update_poster_status(posters, w.rows[1], "completed")
          /\ w' = [w EXCEPT !.tasks[1] = "ok", !.pc = "csv_poster_completed"]
       \/ /\ posters' = posters
          /\ w' = [w EXCEPT !.tasks[1] = "err", !.pc = "csv_poster_completed"]
    /\ UNCHANGED <<job, d, topic, consumerAlive, active, c, events, crashes, g, request, hub, save, q, fed, converter>>

\* the row is counted and send_poster_completed is awaited
CsvPosterCompleted ==
    /\ w.pc = "csv_poster_completed"
    /\ LET ok == w.tasks[1] = "ok" IN
        /\ events' = Append(events, send_poster_completed(w.batch[w.idx], ok))
        /\ w' = [CountCsvResult(w, ok) EXCEPT !.pc = "csv_progress"]
    /\ UNCHANGED <<job, posters, d, topic, consumerAlive, active, c, crashes, g, request, hub, save, q, fed, converter>>

\* send_progress for the row
CsvProgress ==
    /\ w.pc = "csv_progress"
    /\ events' = Append(events, send_progress(w.processed))
    /\ w' = [w EXCEPT !.idx = @ + 1, !.tasks = <<"new">>, !.rows = <<0>>,
                      !.pc = IF w.idx + 1 <= Len(w.batch) THEN "csv_generate" ELSE "csv_batch_update"]
    /\ UNCHANGED <<job, posters, d, topic, consumerAlive, active, c, crashes, g, request, hub, save, q, fed, converter>>

\* update_job_status(job_id, "processing", processed, success_count, failure_count)
CsvBatchUpdate ==
    /\ w.pc = "csv_batch_update"
    /\ job' = update_job_status(job, "processing", Counters(w), FALSE)
    /\ w' = [w EXCEPT !.pc = "csv_sleep"]
    /\ UNCHANGED <<posters, d, topic, consumerAlive, active, c, events, crashes, g, request, hub, save, q, fed, converter>>

\* asyncio.sleep(0.5), then the next batch or the end of the loop
CsvSleep ==
    /\ w.pc = "csv_sleep"
    /\ w' = [w EXCEPT !.off = @ + BATCH_SIZE,
                      !.pc = IF w.off + BATCH_SIZE < w.n THEN "csv_batch_log" ELSE "csv_set_completed"]
    /\ UNCHANGED <<job, posters, d, topic, consumerAlive, active, c, events, crashes, g, request, hub, save, q, fed, converter>>

\* update_job_status(job_id, "completed", processed, success_count, failure_count)
CsvSetCompleted ==
    /\ w.pc = "csv_set_completed"
    /\ job' = update_job_status(job, "completed", Counters(w), FALSE)
    /\ w' = [w EXCEPT !.pc = "csv_log_completed"]
    /\ UNCHANGED <<posters, d, topic, consumerAlive, active, c, events, crashes, g, request, hub, save, q, fed, converter>>

\* add_log("CSV job completed")
CsvLogCompleted ==
    /\ w.pc = "csv_log_completed"
    /\ w' = [w EXCEPT !.pc = "csv_send_job_completed"]
    /\ UNCHANGED <<job, posters, d, topic, consumerAlive, active, c, events, crashes, g, request, hub, save, q, fed, converter>>

\* send_job_completed; the task ends
CsvSendJobCompleted ==
    /\ w.pc = "csv_send_job_completed"
    /\ events' = Append(events, send_job_completed)
    /\ w' = [w EXCEPT !.pc = "done"]
    /\ UNCHANGED <<job, posters, d, topic, consumerAlive, active, c, crashes, g, request, hub, save, q, fed, converter>>

\* a Store call of the try block raises: control goes to the except clause
CsvEnvelopeError ==
    /\ w.pc \in {"csv_set_processing", "csv_batch_update", "csv_set_completed", "csv_log_completed"}
    /\ w' = [w EXCEPT !.pc = "csv_set_failed"]
    /\ UNCHANGED <<job, posters, d, topic, consumerAlive, active, c, events, crashes, g, request, hub, save, q, fed, converter>>

\* except: update_job_status(job_id, "failed", error_message=str(e))
CsvSetFailed ==
    /\ w.pc = "csv_set_failed"
    /\ job' = update_job_status(job, "failed", None, TRUE)
    /\ w' = [w EXCEPT !.pc = "csv_send_job_failed"]
    /\ UNCHANGED <<posters, d, topic, consumerAlive, active, c, events, crashes, g, request, hub, save, q, fed, converter>>

\* except: send_job_failed; the task ends
CsvSendJobFailed ==
    /\ w.pc = "csv_send_job_failed"
    /\ events' = Append(events, send_job_failed)
    /\ w' = [w EXCEPT !.pc = "done"]
    /\ UNCHANGED <<job, posters, d, topic, consumerAlive, active, c, crashes, g, request, hub, save, q, fed, converter>>

\* except: update_job_status raises as well: the exception leaves the task
CsvHandlerError ==
    /\ w.pc = "csv_set_failed"
    /\ w' = [w EXCEPT !.pc = "done"]
    /\ UNCHANGED <<job, posters, d, topic, consumerAlive, active, c, events, crashes, g, request, hub, save, q, fed, converter>>

process_csv_job ==
    \/ CsvSetProcessing \/ CsvLogStarted \/ CsvBatchLog \/ CsvCreateRecord \/ CsvPipeline
    \/ CsvPosterCompleted \/ CsvProgress \/ CsvBatchUpdate \/ CsvSleep \/ CsvSetCompleted
    \/ CsvLogCompleted \/ CsvSendJobCompleted \/ CsvEnvelopeError \/ CsvSetFailed
    \/ CsvSendJobFailed \/ CsvHandlerError

\* ---- Worker: _process_single_ai_job ----
\* update_job_status(job_id, "processing")
AiSetProcessing ==
    /\ w.pc = "ai_set_processing"
    /\ job' = update_job_status(job, "processing", None, FALSE)
    /\ w' = [w EXCEPT !.pc = "ai_log_started"]
    /\ UNCHANGED <<posters, d, topic, consumerAlive, active, c, events, crashes, g, request, hub, save, q, fed, converter>>

\* send_log("Starting AI poster generation")
AiLogStarted ==
    /\ w.pc = "ai_log_started"
    /\ events' = Append(events, send_log)
    /\ w' = [w EXCEPT !.pc = "ai_progress"]
    /\ UNCHANGED <<job, posters, d, topic, consumerAlive, active, c, crashes, g, request, hub, save, q, fed, converter>>

\* send_progress(job_id, 0, 3, 0, 0, ..., "fetching_profile")
AiProgress ==
    /\ w.pc = "ai_progress"
    /\ events' = Append(events, send_progress(0))
    /\ w' = [w EXCEPT !.pc = "ai_fetch"]
    /\ UNCHANGED <<job, posters, d, topic, consumerAlive, active, c, crashes, g, request, hub, save, q, fed, converter>>

\* fetch_topmate_profile raises, or it returns: with a reference image the strategies
\* are built next, without one the creative direction is asked for first
AiFetch ==
    /\ w.pc = "ai_fetch"
    /\ \E next \in {"ai_set_failed", "ai_direction_log", "ai_strategies"} :
        w' = [w EXCEPT !.pc = next]
    /\ UNCHANGED <<job, posters, d, topic, consumerAlive, active, c, events, crashes, g, request, hub, save, q, fed, converter>>

\* send_log("Getting AI creative direction"); call_openrouter is not a name of the
\* module, the NameError is caught by the inner except
AiDirectionLog ==
    /\ w.pc = "ai_direction_log"
    /\ events' = Append(events, send_log)
    /\ w' = [w EXCEPT !.pc = "ai_strategies"]
    /\ UNCHANGED <<job, posters, d, topic, consumerAlive, active, c, crashes, g, request, hub, save, q, fed, converter>>

\* POSTER_STRATEGIES is not a name of the module: the NameError reaches the outer
\* except, which awaits update_job_status(job_id, "failed", error_message=str(e))
AiSetFailed ==
    /\ w.pc \in {"ai_strategies", "ai_set_failed"}
    /\ job' = update_job_status(job, "failed", None, TRUE)
    /\ w' = [w EXCEPT !.pc = "ai_send_job_failed"]
    /\ UNCHANGED <<posters, d, topic, consumerAlive, active, c, events, crashes, g, request, hub, save, q, fed, converter>>

\* except: send_job_failed; the task ends
AiSendJobFailed ==
    /\ w.pc = "ai_send_job_failed"
    /\ events' = Append(events, send_job_failed)
    /\ w' = [w EXCEPT !.pc = "done"]
    /\ UNCHANGED <<job, posters, d, topic, consumerAlive, active, c, crashes, g, request, hub, save, q, fed, converter>>

\* except: update_job_status raises as well: the exception leaves the task
AiHandlerError ==
    /\ w.pc \in {"ai_strategies", "ai_set_failed"}
    /\ w' = [w EXCEPT !.pc = "done"]
    /\ UNCHANGED <<job, posters, d, topic, consumerAlive, active, c, events, crashes, g, request, hub, save, q, fed, converter>>

process_single_ai_job ==
    \/ AiSetProcessing \/ AiLogStarted \/ AiProgress \/ AiFetch \/ AiDirectionLog
    \/ AiSetFailed \/ AiSendJobFailed \/ AiHandlerError

\* a task started by the dispatcher itself has ended
FallbackTaskEnd ==
    /\ w.pc = "done"
    /\ w.path = "sync"
    /\ w' = IdleW
    /\ UNCHANGED <<job, posters, d, topic, consumerAlive, active, c, events, crashes, g, request, hub, save, q, fed, converter>>

\* ---- Cancel: router cancel_job and JobManager.cancel_job ----
\* Cancellable with completed accepted by the router as well
Cancellable_WithCompleted == {"pending", "queued", "processing", "completed"}

\* the states in which the router lets a cancel request through
Cancellable == {"pending", "queued", "processing"}

\* get_job_status: get_job reads the row
CancelRead ==
    /\ c.pc = "idle"
    /\ c.calls < MaxCancels
    /\ job.status # "none"
    /\ c' = [pc |-> "stats", saw |-> job.status, calls |-> c.calls + 1]
    /\ UNCHANGED <<job, posters, d, topic, consumerAlive, active, w, events, crashes, g, request, hub, save, q, fed, converter>>

\* get_job_statistics returns; a job that is not pending, queued or processing is
\* refused (400, c.saw keeps the status that was reported); otherwise JobManager.cancel_job looks the job up in _active_jobs and
\* cancels its task, whose CancelledError leaves _handle_job_message and consume()
CancelCheck ==
    /\ c.pc = "stats"
    /\ IF c.saw \notin Cancellable
       THEN /\ c' = [c EXCEPT !.pc = "idle"]
            /\ UNCHANGED <<w, active, consumerAlive>>
       ELSE IF ~active
       THEN /\ c' = [c EXCEPT !.pc = "idle", !.saw = "none"]
            /\ UNCHANGED <<w, active, consumerAlive>>
       ELSE /\ c' = [c EXCEPT !.pc = "write_cancelled"]
            /\ w' = IdleW
            /\ active' = FALSE
            /\ consumerAlive' = FALSE
    /\ UNCHANGED <<job, posters, d, topic, events, crashes, g, request, hub, save, q, fed, converter>>

\* update_job_status(job_id, "cancelled")
CancelWrite ==
    /\ c.pc = "write_cancelled"
    /\ job' = update_job_status(job, "cancelled", None, FALSE)
    /\ c' = [c EXCEPT !.pc = "send_job_failed"]
    /\ UNCHANGED <<posters, d, topic, consumerAlive, active, w, events, crashes, g, request, hub, save, q, fed, converter>>

\* send_job_failed(job_id, "Job cancelled by user"); returns True
CancelSendJobFailed ==
    /\ c.pc = "send_job_failed"
    /\ events' = Append(events, send_job_failed)
    /\ c' = [c EXCEPT !.pc = "idle", !.saw = "none"]
    /\ UNCHANGED <<job, posters, d, topic, consumerAlive, active, w, crashes, g, request, hub, save, q, fed, converter>>

cancel_job == CancelRead \/ CancelCheck \/ CancelWrite \/ CancelSendJobFailed

\* ---- Template generation: generate_from_template and process_template_poster_task ----
TplPhases == 5

\* the phases of the task whose work awaits an external call that can raise: the Store
\* connection, the template query, the rasterizer, the upload
TplPhaseRaises == {1, 2, 4, 5}

\* INSERT INTO template_generation_jobs (... status 'queued', total_items 1), and the
\* creation is logged
TplSubmit ==
    /\ d.pc = "idle"
    /\ request.kind = "template"
    /\ d' = [pc |-> "tpl_progress", kind |-> "template", n |-> 1]
    /\ job' = [create_batch_job(1) EXCEPT !.status = "queued"]
    /\ UNCHANGED <<posters, topic, consumerAlive, active, w, c, events, crashes, g, request, hub, save, q, fed, converter>>

\* send_progress(job_id, 0, 1, 0, 0, None, "starting")
TplSendProgress ==
    /\ d.pc = "tpl_progress"
    /\ events' = Append(events, send_progress(0))
    /\ d' = [d EXCEPT !.pc = "tpl_log"]
    /\ UNCHANGED <<job, posters, topic, consumerAlive, active, w, c, crashes, g, request, hub, save, q, fed, converter>>

\* send_log("Starting poster generation")
TplSendLog ==
    /\ d.pc = "tpl_log"
    /\ events' = Append(events, send_log)
    /\ d' = [d EXCEPT !.pc = "tpl_kiq"]
    /\ UNCHANGED <<job, posters, topic, consumerAlive, active, w, c, crashes, g, request, hub, save, q, fed, converter>>

\* process_template_poster_task.kiq(...): the task is handed to the TaskIQ broker
TplKiq ==
    /\ d.pc = "tpl_kiq"
    /\ w.pc = "idle"
    /\ w' = StartW("tpl_queued", "taskiq", 1, FALSE)
    /\ d' = [d EXCEPT !.pc = "done"]
    /\ UNCHANGED <<job, posters, topic, consumerAlive, active, c, events, crashes, g, request, hub, save, q, fed, converter>>

generate_from_template == TplSubmit \/ TplSendProgress \/ TplSendLog \/ TplKiq

\* a TaskIQ worker starts the task; ensure_services_initialized returns
TplTaskStart ==
    /\ w.pc = "tpl_queued"
    /\ w' = [w EXCEPT !.pc = "tpl_progress", !.idx = 1]
    /\ UNCHANGED <<job, posters, d, topic, consumerAlive, active, c, events, crashes, g, request, hub, save, q, fed, converter>>

\* send_progress(job_id, 0, 1, 0, 0, None, phase) at the head of phase idx
TplProgress ==
    /\ w.pc = "tpl_progress"
    /\ events' = Append(events, send_progress(0))
    /\ w' = [w EXCEPT !.pc = "tpl_log"]
    /\ UNCHANGED <<job, posters, d, topic, consumerAlive, active, c, crashes, g, request, hub, save, q, fed, converter>>

\* send_log of phase idx
TplLog ==
    /\ w.pc = "tpl_log"
    /\ events' = Append(events, send_log)
    /\ w' = [w EXCEPT !.pc = "tpl_work"]
    /\ UNCHANGED <<job, posters, d, topic, consumerAlive, active, c, crashes, g, request, hub, save, q, fed, converter>>

\* the work of phase idx returns, or it raises; after the upload the result is inserted
TplWork ==
    /\ w.pc = "tpl_work"
    /\ \/ w' = [w EXCEPT !.idx = IF w.idx < TplPhases THEN @ + 1 ELSE @,
                         !.pc = IF w.idx < TplPhases THEN "tpl_progress" ELSE "tpl_insert"]
       \/ /\ w.idx \in TplPhaseRaises
          /\ w' = [w EXCEPT !.pc = "tpl_failed"]
    /\ UNCHANGED <<job, posters, d, topic, consumerAlive, active, c, events, crashes, g, request, hub, save, q, fed, converter>>

\* INSERT INTO template_poster_results (... status 'completed'), or it raises
TplInsertResult ==
    /\ w.pc = "tpl_insert"
    /\ \/ /\ posters' = Append(posters, [item |-> 1, status |-> "completed"])
          /\ w' = [w EXCEPT !.pc = "tpl_done_progress"]
       \/ /\ posters' = posters
          /\ w' = [w EXCEPT !.pc = "tpl_failed"]
    /\ UNCHANGED <<job, d, topic, consumerAlive, active, c, events, crashes, g, request, hub, save, q, fed, converter>>

\* send_progress(job_id, 1, 1, 1, 0, entity_id, "completed")
TplDoneProgress ==
    /\ w.pc = "tpl_done_progress"
    /\ events' = Append(events, send_progress(1))
    /\ w' = [w EXCEPT !.pc = "tpl_done_log"]
    /\ UNCHANGED <<job, posters, d, topic, consumerAlive, active, c, crashes, g, request, hub, save, q, fed, converter>>

\* send_log("Generation completed")
TplDoneLog ==
    /\ w.pc = "tpl_done_log"
    /\ events' = Append(events, send_log)
    /\ w' = [w EXCEPT !.pc = "tpl_poster_completed"]
    /\ UNCHANGED <<job, posters, d, topic, consumerAlive, active, c, crashes, g, request, hub, save, q, fed, converter>>

\* send_poster_completed(success=True); the task returns
TplPosterCompleted ==
    /\ w.pc = "tpl_poster_completed"
    /\ events' = Append(events, send_poster_completed(1, TRUE))
    /\ w' = [w EXCEPT !.pc = "done"]
    /\ UNCHANGED <<job, posters, d, topic, consumerAlive, active, c, crashes, g, request, hub, save, q, fed, converter>>

\* except: INSERT INTO template_poster_results (... status 'failed') and the error log,
\* whose own exceptions are swallowed
TplFailed ==
    /\ w.pc = "tpl_failed"
    /\ \/ posters' = Append(posters, [item |-> 1, status |-> "failed"])
       \/ posters' = posters
    /\ w' = [w EXCEPT !.pc = "tpl_failed_event"]
    /\ UNCHANGED <<job, d, topic, consumerAlive, active, c, events, crashes, g, request, hub, save, q, fed, converter>>

\* except: send_poster_completed(success=False); the task returns
TplFailedEvent ==
    /\ w.pc = "tpl_failed_event"
    /\ events' = Append(events, send_poster_completed(1, FALSE))
    /\ w' = [w EXCEPT !.pc = "done"]
    /\ UNCHANGED <<job, posters, d, topic, consumerAlive, active, c, crashes, g, request, hub, save, q, fed, converter>>

\* the task has returned its result to TaskIQ
TplTaskEnd ==
    /\ w.pc = "done"
    /\ w.path = "taskiq"
    /\ w' = IdleW
    /\ UNCHANGED <<job, posters, d, topic, consumerAlive, active, c, events, crashes, g, request, hub, save, q, fed, converter>>

process_template_poster_task ==
    \/ TplTaskStart \/ TplProgress \/ TplLog \/ TplWork \/ TplInsertResult
    \/ TplDoneProgress \/ TplDoneLog \/ TplPosterCompleted \/ TplFailed
    \/ TplFailedEvent \/ TplTaskEnd

\* ---- StreamGateway: stream_job_progress and its event_generator ----
HeartbeatEvery == 6

\* get_job_status reads the row of the job (404 when there is none)
GwRead ==
    /\ g.pc = "idle"
    /\ job.status # "none"
    /\ g' = [g EXCEPT !.pc = "stats", !.status = StatusPayload(job)]
    /\ UNCHANGED <<job, posters, d, topic, consumerAlive, active, w, c, events, crashes, request, hub, save, q, fed, converter>>

\* get_job_statistics has returned; sse_manager.connect registers the connection and
\* queues connected, then the status event is queued, without an await that suspends
GwConnect ==
    /\ g.pc = "stats"
    /\ g' = [g EXCEPT !.pc = "wait", !.seen = Len(events), !.next = Len(events) + 1]
    /\ UNCHANGED <<job, posters, d, topic, consumerAlive, active, w, c, events, crashes, request, hub, save, q, fed, converter>>

\* queue.get returns an event, it is yielded; job_completed and job_failed end the stream
GwYield ==
    /\ g.pc = "wait"
    /\ g.next <= Len(events)
    /\ g' = [g EXCEPT !.next = @ + 1,
                      !.pc = IF events[g.next].name \in TerminalEvents THEN "closed" ELSE "wait"]
    /\ UNCHANGED <<job, posters, d, topic, consumerAlive, active, w, c, events, crashes, request, hub, save, q, fed, converter>>

\* queue.get times out: heartbeat_count += 1, every sixth time a heartbeat is yielded,
\* then the backup check awaits get_job_status
GwTimeout ==
    /\ g.pc = "wait"
    /\ g.next > Len(events)
    /\ g' = [g EXCEPT !.beats = (@ + 1) % HeartbeatEvery, !.pc = "backup"]
    /\ UNCHANGED <<job, posters, d, topic, consumerAlive, active, w, c, events, crashes, request, hub, save, q, fed, converter>>

\* the backup check: a completed or failed job gets its completion event made up and
\* the stream ends, any other status goes back to waiting; when get_job_status raises
\* the except clause yields an event named error and the stream ends
GwBackup ==
    /\ g.pc = "backup"
    /\ \/ g' = [g EXCEPT !.pc = IF job.status \in {"completed", "failed"} THEN "closed" ELSE "wait",
                         !.synth = CASE job.status = "completed" -> "job_completed"
                                     [] job.status = "failed" -> "job_failed"
                                     [] OTHER -> @]
       \/ g' = [g EXCEPT !.pc = "closed", !.synth = "error"]
    /\ UNCHANGED <<job, posters, d, topic, consumerAlive, active, w, c, events, crashes, request, hub, save, q, fed, converter>>

\* request.is_disconnected() is true at the head of the loop: the stream ends
GwDisconnect ==
    /\ g.pc = "wait"
    /\ g' = [g EXCEPT !.pc = "closed"]
    /\ UNCHANGED <<job, posters, d, topic, consumerAlive, active, w, c, events, crashes, request, hub, save, q, fed, converter>>

\* a stream request that arrives when the job is already in a terminal state
GwReadLate == job.status \in Terminal /\ GwRead

stream_job_progress ==
    \/ GwRead \/ GwConnect \/ GwYield \/ GwTimeout \/ GwBackup \/ GwDisconnect

\* ---- StreamGateway of a template job: stream_template_generation ----
\* max_wait / poll_interval = 120 / 0.5 polls
TplMaxWait == 240

TemplateStreamEnd == {"poster_completed", "job_completed", "job_failed"}

\* SELECT ... FROM template_generation_jobs reads the row of the job (404 when none)
TgRead ==
    /\ g.pc = "idle"
    /\ job.status # "none"
    /\ g' = [g EXCEPT !.pc = "tg_connect",
                      !.status = [StatusPayload(NoJob) EXCEPT !.status = job.status, !.total = 1]]
    /\ UNCHANGED <<job, posters, d, topic, consumerAlive, active, w, c, events, crashes, request, hub, save, q, fed, converter>>

\* sse_manager.connect registers the connection and queues connected, then the status
\* event (processed 0, total 1) is queued
TgConnect ==
    /\ g.pc = "tg_connect"
    /\ g' = [g EXCEPT !.pc = "tg_wait", !.seen = Len(events), !.next = Len(events) + 1]
    /\ UNCHANGED <<job, posters, d, topic, consumerAlive, active, w, c, events, crashes, request, hub, save, q, fed, converter>>

\* queue.get returns an event, it is yielded; poster_completed, job_completed and
\* job_failed end the stream
TgYield ==
    /\ g.pc = "tg_wait"
    /\ g.next <= Len(events)
    /\ g' = [g EXCEPT !.next = @ + 1,
                      !.pc = IF events[g.next].name \in TemplateStreamEnd THEN "closed" ELSE "tg_wait"]
    /\ UNCHANGED <<job, posters, d, topic, consumerAlive, active, w, c, events, crashes, request, hub, save, q, fed, converter>>

\* queue.get times out after poll_interval: waited grows, the result row of the job is
\* looked up and ends the stream with a made-up poster_completed or job_failed; when
\* max_wait is reached the stream ends with job_failed; when the query raises it ends
\* with an event named error
TgTimeout ==
    /\ g.pc = "tg_wait"
    /\ g.next > Len(events)
    /\ \/ g' = [g EXCEPT !.waited = @ + 1,
                         !.pc = IF posters # <<>> \/ g.waited + 1 >= TplMaxWait
                                THEN "closed" ELSE "tg_wait",
                         !.synth = CASE posters # <<>> /\ posters[1].status = "completed"
                                            -> "poster_completed"
                                     [] posters # <<>> /\ posters[1].status = "failed"
                                            -> "job_failed"
                                     [] posters = <<>> /\ g.waited + 1 >= TplMaxWait
                                            -> "job_failed"
                                     [] OTHER -> @]
       \/ g' = [g EXCEPT !.waited = @ + 1, !.pc = "closed", !.synth = "error"]
    /\ UNCHANGED <<job, posters, d, topic, consumerAlive, active, w, c, events, crashes, request, hub, save, q, fed, converter>>

\* request.is_disconnected() is true at the head of the loop: the stream ends
TgDisconnect ==
    /\ g.pc = "tg_wait"
    /\ g' = [g EXCEPT !.pc = "closed"]
    /\ UNCHANGED <<job, posters, d, topic, consumerAlive, active, w, c, events, crashes, request, hub, save, q, fed, converter>>

stream_template_generation == TgRead \/ TgConnect \/ TgYield \/ TgTimeout \/ TgDisconnect

\* ---- SSEManager and the stream request of each connection ----
\* SSEConnection.send that does not look at _closed
send_Unchecked(h, cid, event_type) ==
    [h EXCEPT !.queue[cid] = Append(@, event_type)]

\* SSEConnection.send: the event is queued unless the connection is closed
send(h, cid, event_type) ==
    IF ~h.closed[cid]
    THEN [h EXCEPT !.queue[cid] = Append(@, event_type)]
    ELSE [h EXCEPT !.refused = @ \cup {cid}]

\* SSEManager.connect: the connection is made, put into both registries and sent
\* connected, all under the lock
connect(h, cid) ==
    send([h EXCEPT !.has_key = TRUE,
                   !.connections = @ \cup {cid},
                   !.connection_map = @ \cup {cid},
                   !.closed[cid] = FALSE,
                   !.queue[cid] = <<>>], cid, "connected")

\* SSEManager.disconnect that leaves the key of the job in _connections
disconnect_KeepsKey(h, cid) ==
    IF cid \in h.connection_map
    THEN [h EXCEPT !.closed[cid] = TRUE,
                   !.connections = @ \ {cid},
                   !.connection_map = @ \ {cid}]
    ELSE h

\* SSEManager.disconnect: a connection of _connection_map is closed and taken out of
\* both registries, and the key of a job without connections is deleted, under the
\* lock
disconnect(h, cid) ==
    IF cid \in h.connection_map
    THEN [h EXCEPT !.closed[cid] = TRUE,
                   !.connections = @ \ {cid},
                   !.has_key = IF h.has_key /\ h.connections \ {cid} = {} THEN FALSE ELSE @,
                   !.connection_map = @ \ {cid}]
    ELSE h

\* SSEManager.get_connection_count() without a job id
get_connection_count(h) == Cardinality(h.connection_map)

HubUnchanged ==
    UNCHANGED <<job, posters, d, topic, consumerAlive, active, w, c, events, crashes, g,
                request, save, q, fed, converter>>

\* stream_job_progress of a job that does not exist: 404, no connection is made
HubNotFound(cid) ==
    /\ hub.stream[cid] = "idle"
    /\ job.status = "none"
    /\ hub' = [hub EXCEPT !.stream[cid] = "ended"]
    /\ HubUnchanged

\* stream_job_progress of a job that exists: connect, then the status event
HubConnect(cid) ==
    /\ hub.stream[cid] = "idle"
    /\ job.status # "none"
    /\ hub' = [send(connect(hub, cid), cid, "status") EXCEPT !.stream[cid] = "open"]
    /\ HubUnchanged

\* _broadcast_local, under the lock: the connections of the job are copied; without
\* a connection the event is dropped
HubSnapshot ==
    /\ hub.b.pc = "idle"
    /\ hub.b.calls < MaxBroadcasts
    /\ \E event_type \in {"progress", "job_completed"} :
        hub' = [hub EXCEPT !.b = IF ~hub.has_key
                                  THEN [@ EXCEPT !.calls = @ + 1]
                                  ELSE [pc |-> "sending", snapshot |-> hub.connections,
                                        event |-> event_type, calls |-> @.calls + 1]]
    /\ HubUnchanged

\* _broadcast_local, after the lock: connection.send for the next connection of
\* the copy
HubSend ==
    /\ hub.b.pc = "sending"
    /\ \E cid \in hub.b.snapshot :
        LET rest == hub.b.snapshot \ {cid} IN
        hub' = [send(hub, cid, hub.b.event) EXCEPT
                    !.b = [@ EXCEPT !.snapshot = rest,
                                    !.pc = IF rest = {} THEN "idle" ELSE "sending"]]
    /\ HubUnchanged

\* event_generator: an event is taken from the queue and yielded; job_completed
\* and job_failed break the loop
HubYield(cid) ==
    /\ hub.stream[cid] = "open"
    /\ hub.queue[cid] # <<>>
    /\ hub' = [hub EXCEPT !.queue[cid] = Tail(@),
                          !.stream[cid] = IF Head(hub.queue[cid]) \in TerminalEvents
                                          THEN "finally" ELSE "open"]
    /\ HubUnchanged

\* event_generator: the client has disconnected, or the loop raised and the except
\* clause has yielded its event
HubBreak(cid) ==
    /\ hub.stream[cid] = "open"
    /\ hub' = [hub EXCEPT !.stream[cid] = "finally"]
    /\ HubUnchanged

\* event_generator, finally: sse_manager.disconnect(connection_id)
HubDisconnect(cid) ==
    /\ hub.stream[cid] = "finally"
    /\ hub' = [disconnect(hub, cid) EXCEPT !.stream[cid] = "ended"]
    /\ HubUnchanged

\* ---- save_bulk_posters: save_bulk_posters, _process_save_job, _process_single_save ----
SAVE_BATCH_SIZE == 10

SaveUnchanged ==
    UNCHANGED <<job, posters, d, topic, consumerAlive, active, w, c, events, crashes, g,
                request, hub, q, fed, converter>>

\* add_log: an entry of the level is appended to job["logs"]
add_log(sv, level) == [sv EXCEPT !.logs = Append(@, level)]

\* "if poster.userId:" that takes every userId as given
has_user_id_Always(poster) == TRUE

\* "if poster.userId:": None and 0 are not a user id
has_user_id(poster) == poster.userId # NoneId /\ poster.userId # 0

\* the posters of the batch that starts at batch_idx
SaveBatch(sv) ==
    {i \in DOMAIN sv.posters : sv.batch_idx < i /\ i <= sv.batch_idx + SAVE_BATCH_SIZE}

\* POST /save-bulk-posters: the job state is put into save_jobs and the background
\* task is created
SaveSubmit ==
    /\ save.status = "none"
    /\ \E req \in SaveRequests :
        save' = [IdleSave EXCEPT !.status = "processing", !.total = Len(req),
                                 !.posters = req, !.task = "start",
                                 !.pc = [i \in DOMAIN req |-> "queued"]]
    /\ SaveUnchanged

\* _process_save_job: the start is logged; the loop over the batches begins
SaveJobStart ==
    /\ save.task = "start"
    /\ save' = [add_log(save, "INFO") EXCEPT !.task = "batch"]
    /\ SaveUnchanged

\* one round of the loop: the batch is logged and a _process_single_save is made for
\* each of its posters, which asyncio.gather starts
SaveBatchStart ==
    /\ save.task = "batch"
    /\ save.batch_idx < Len(save.posters)
    /\ save' = [add_log(save, "INFO") EXCEPT
                    !.task = "gather",
                    !.pc = [i \in DOMAIN save.posters |->
                                IF i \in SaveBatch(save) THEN "start" ELSE save.pc[i]]]
    /\ SaveUnchanged

\* _process_single_save up to its first await: a poster with a userId goes on to the
\* upload or the webhook; one without is counted as failed and processed
SaveItemStart(i) ==
    /\ i \in DOMAIN save.pc
    /\ save.pc[i] = "start"
    /\ save' =
        IF has_user_id(save.posters[i])
        THEN [add_log(add_log(add_log(save, "INFO"), "INFO"), "INFO") EXCEPT
                !.pc[i] = IF save.posters[i].data_url THEN "upload" ELSE "webhook"]
        ELSE [add_log(add_log(save, "INFO"), "ERROR") EXCEPT
                !.failed = @ + 1, !.processed = @ + 1,
                !.failures = Append(@, i),
                !.pc[i] = "log_missing_user_id"]
    /\ SaveUnchanged

\* the except clause of _process_single_save up to its await
save_except(sv, i) ==
    [add_log(sv, "ERROR") EXCEPT
        !.failed = @ + 1, !.processed = @ + 1,
        !.failures = Append(@, i),
        !.pc[i] = "log_unexpected_error"]

\* upload_image(poster.posterUrl, filename) raises, or returns its dict of url and
\* key, of which final_url[:50] raises TypeError: the except clause runs
SaveUpload(i) ==
    /\ i \in DOMAIN save.pc
    /\ save.pc[i] = "upload"
    /\ \/ save' = save_except(save, i)
       \/ save' = save_except([save EXCEPT !.uploads = @ \cup {i}], i)
    /\ SaveUnchanged

\* store_poster_to_django returns success or an error (it raises nothing)
SaveWebhook(i) ==
    /\ i \in DOMAIN save.pc
    /\ save.pc[i] = "webhook"
    /\ \/ save' = [add_log(save, "SUCCESS") EXCEPT
                        !.webhooks = @ \cup {i},
                        !.success = @ + 1, !.results = Append(@, i),
                        !.processed = @ + 1, !.pc[i] = "done"]
       \/ save' = [add_log(save, "ERROR") EXCEPT
                        !.webhooks = @ \cup {i},
                        !.failed = @ + 1, !.failures = Append(@, i),
                        !.pc[i] = "log_webhook_failed"]
    /\ SaveUnchanged

\* database_service.log_save_failure inserts its row, or raises and a warning is
\* logged; after a webhook failure the poster is then counted as processed
SaveLogFailure(i) ==
    /\ i \in DOMAIN save.pc
    /\ save.pc[i] \in {"log_missing_user_id", "log_webhook_failed", "log_unexpected_error"}
    /\ LET failure_type == CASE save.pc[i] = "log_missing_user_id" -> "missing_user_id"
                              [] save.pc[i] = "log_webhook_failed" -> "webhook_failed"
                              [] OTHER -> "unexpected_error"
           counted == [save EXCEPT !.pc[i] = "done",
                                   !.processed = IF save.pc[i] = "log_webhook_failed"
                                                 THEN @ + 1 ELSE @]
       IN \/ save' = [counted EXCEPT
                        !.details = Append(@, [poster |-> i, failure_type |-> failure_type])]
          \/ save' = add_log(counted, "WARNING")
    /\ SaveUnchanged

\* asyncio.gather has returned: the loop goes to the next batch
SaveGather ==
    /\ save.task = "gather"
    /\ \A i \in SaveBatch(save) : save.pc[i] = "done"
    /\ LET next == [save EXCEPT !.batch_idx = @ + SAVE_BATCH_SIZE, !.task = "batch"]
       IN save' = IF save.batch_idx + SAVE_BATCH_SIZE < Len(save.posters)
                  THEN add_log(next, "INFO") ELSE next
    /\ SaveUnchanged

\* the loop has ended: the job is marked completed
SaveJobCompleted ==
    /\ save.task = "batch"
    /\ save.batch_idx >= Len(save.posters)
    /\ save' = [add_log(save, "SUCCESS") EXCEPT !.status = "completed", !.task = "done"]
    /\ SaveUnchanged

process_single_save(i) ==
    SaveItemStart(i) \/ SaveUpload(i) \/ SaveWebhook(i) \/ SaveLogFailure(i)

process_save_job ==
    SaveJobStart \/ SaveBatchStart \/ SaveGather \/ SaveJobCompleted

\* ---- RedPandaClient.start_consumer.consume over several envelopes ----
QUnchanged ==
    UNCHANGED <<job, posters, d, topic, consumerAlive, active, w, c, events, crashes, g,
                request, hub, save, fed, converter>>

\* a handler that returns as soon as it has created the task
handler_NoAwait == "next"

\* _handle_job_message after create_task: it awaits the task
handler == "await_task"

\* publish_job of a dispatcher: the envelope of one more job is on the topic
QPublish ==
    /\ q.published < MaxEnvelopes
    /\ q' = [q EXCEPT !.published = @ + 1]
    /\ QUnchanged

\* async for msg in consumer: the next envelope is handed to the handler, which
\* creates the task of the job and puts it into _active_jobs
QFetch ==
    /\ q.loop = "next"
    /\ q.position < q.published
    /\ LET id == q.position + 1 IN
        q' = [q EXCEPT !.position = id, !.tasks[id] = "running",
                       !.active = @ \cup {id}, !.loop = handler]
    /\ QUnchanged

\* the processing routine of the job ends: it returns, or it raises out of its
\* except clause
QTaskEnd(id) ==
    /\ q.tasks[id] = "running"
    /\ \E outcome \in {"returned", "raised"} : q' = [q EXCEPT !.tasks[id] = outcome]
    /\ QUnchanged

\* JobManager.cancel_job of a job in _active_jobs: task.cancel(); a task that has
\* ended is not changed by it
QCancel(id) ==
    /\ q.cancels < MaxCancels
    /\ id \in q.active
    /\ q' = [q EXCEPT !.cancels = @ + 1,
                      !.tasks[id] = IF @ = "running" THEN "cancelling" ELSE @]
    /\ QUnchanged

\* CancelledError is thrown into the routine at its await; "except Exception" does
\* not catch it and the task ends cancelled
QTaskCancelled(id) ==
    /\ q.tasks[id] = "cancelling"
    /\ q' = [q EXCEPT !.tasks[id] = "cancelled"]
    /\ QUnchanged

\* await task returns, or raises an Exception that consume() logs: finally pops
\* _active_jobs and the loop goes to its next message
QAwaitReturn ==
    /\ q.loop = "await_task"
    /\ q.tasks[q.position] \in {"returned", "raised"}
    /\ q' = [q EXCEPT !.active = @ \ {q.position}, !.loop = "next"]
    /\ QUnchanged

\* await task raises CancelledError: finally pops _active_jobs, "except Exception"
\* of consume() does not catch it, its finally stops the consumer and the loop ends
QAwaitCancelled ==
    /\ q.loop = "await_task"
    /\ q.tasks[q.position] = "cancelled"
    /\ q' = [q EXCEPT !.active = @ \ {q.position}, !.loop = "stopped"]
    /\ QUnchanged

consume ==
    \/ QFetch \/ QAwaitReturn \/ QAwaitCancelled
    \/ \E id \in Envelopes : QTaskEnd(id) \/ QTaskCancelled(id)

\* ---- SSEManager with Redis: initialize, broadcast_to_job, _redis_subscriber ----
FedUnchanged ==
    UNCHANGED <<job, posters, d, topic, consumerAlive, active, w, c, events, crashes, g,
                request, hub, save, q, converter>>

\* _broadcast_local in the process: the event is queued on every registered
\* connection
broadcast_local(f, event) ==
    [f EXCEPT !.queue = [p \in Callers |->
                            IF p \in f.registered THEN Append(f.queue[p], event)
                            ELSE f.queue[p]]]

\* what a caller does once initialize has returned: a stream request registers its
\* connection, the routine goes on to publish
after_initialize(f, p) ==
    [f EXCEPT !.pc[p] = "ready",
              !.registered = IF p = 1 THEN @ ELSE @ \cup {p}]

\* connect or broadcast_to_job tests _initialized and calls initialize, which
\* returns at once when _initialized is set and else awaits redis.from_url
FedEnter(p) ==
    /\ fed.pc[p] = "idle"
    /\ fed' = IF fed.initialized THEN after_initialize(fed, p)
              ELSE [fed EXCEPT !.pc[p] = "from_url"]
    /\ FedUnchanged

\* redis.from_url has returned: _redis_client and _pubsub are assigned and
\* _pubsub.subscribe is awaited
FedFromUrl(p) ==
    /\ fed.pc[p] = "from_url"
    /\ fed' = [fed EXCEPT !.redis_client = p, !.pubsub = p,
                          !.subscribed = @ \cup {p}, !.pc[p] = "subscribe"]
    /\ FedUnchanged

\* subscribe has returned: the subscriber task is created and _initialized set
FedSubscribed(p) ==
    /\ fed.pc[p] = "subscribe"
    /\ fed' = after_initialize([fed EXCEPT !.tasks[p] = "created", !.initialized = TRUE], p)
    /\ FedUnchanged

\* a subscriber task starts: it listens on the PubSub object _pubsub refers to
FedTaskStart(p) ==
    /\ fed.tasks[p] = "created"
    /\ fed' = [fed EXCEPT !.tasks[p] = "listening", !.listens[p] = fed.pubsub]
    /\ FedUnchanged

\* broadcast_to_job of the routine: the event is published on sse_events and Redis
\* sends it to every subscribed PubSub object; or the publish raises and the event
\* is broadcast locally
FedPublish ==
    /\ fed.pc[1] = "ready"
    /\ fed.published < MaxBroadcasts
    /\ LET event == fed.published + 1
           f == [fed EXCEPT !.published = event]
       IN \/ fed' = [f EXCEPT !.inbox = [b \in Callers |->
                                            IF b \in fed.subscribed
                                            THEN Append(fed.inbox[b], event)
                                            ELSE fed.inbox[b]]]
          \/ fed' = broadcast_local(f, event)
    /\ FedUnchanged

\* _redis_subscriber: a task takes the next message of the PubSub object it listens
\* on and broadcasts it locally
FedReceive(p) ==
    /\ fed.tasks[p] = "listening"
    /\ fed.inbox[fed.listens[p]] # <<>>
    /\ fed' = broadcast_local([fed EXCEPT !.inbox[fed.listens[p]] = Tail(@)],
                              Head(fed.inbox[fed.listens[p]]))
    /\ FedUnchanged

initialize(p) == FedEnter(p) \/ FedFromUrl(p) \/ FedSubscribed(p)

redis_subscriber(p) == FedTaskStart(p) \/ FedReceive(p)

\* ---- HTMLToImageConverter: html_to_png and initialize ----
ConverterUnchanged ==
    UNCHANGED <<job, posters, d, topic, consumerAlive, active, w, c, events, crashes, g,
                request, hub, save, q, fed>>

\* html_to_png: without a browser initialize is called, which tests _browser again
\* and awaits async_playwright().start(); with a browser the page is made
HtmlToPng(i) ==
    /\ converter.pc[i] = "idle"
    /\ converter' = [converter EXCEPT !.pc[i] = IF converter.browser = 0
                                                THEN "playwright_start" ELSE "render"]
    /\ ConverterUnchanged

\* async_playwright().start() has returned: _playwright is assigned and
\* chromium.launch is awaited
PlaywrightStarted(i) ==
    /\ converter.pc[i] = "playwright_start"
    /\ converter' = [converter EXCEPT !.playwright = i, !.pc[i] = "launch"]
    /\ ConverterUnchanged

\* chromium.launch has returned a browser: _browser is assigned, initialize returns
BrowserLaunched(i) ==
    /\ converter.pc[i] = "launch"
    /\ converter' = [converter EXCEPT !.browser = i, !.launched = @ \cup {i},
                                      !.pc[i] = "render"]
    /\ ConverterUnchanged

\* the page is rendered and closed, html_to_png returns
Rendered(i) ==
    /\ converter.pc[i] = "render"
    /\ converter' = [converter EXCEPT !.pc[i] = "done"]
    /\ ConverterUnchanged

html_to_png(i) == HtmlToPng(i) \/ PlaywrightStarted(i) \/ BrowserLaunched(i) \/ Rendered(i)

create_job ==
    \/ Submit \/ DispatchPublishOk \/ DispatchPublishFail \/ DispatchWriteQueued

\* submission, delivery and processing without faults
NextCore ==
    \/ create_job
    \/ Deliver \/ HandlerReturn \/ FallbackTaskEnd
    \/ process_job \/ process_csv_job \/ process_single_ai_job

Next == NextCore \/ Crash \/ cancel_job

\* every operation: processing, restarts with redelivery, and cancel requests
Spec == Init /\ [][Next]_vars

\* processing and restarts with redelivery, no cancel request
NextRedelivery == NextCore \/ Crash

SpecRedelivery == Init /\ [][NextRedelivery]_vars

\* processing and cancel requests, no restart
NextCancel == NextCore \/ cancel_job

SpecCancel == Init /\ [][NextCancel]_vars

\* processing without restart and without cancel request
SpecCore == Init /\ [][NextCore]_vars

\* the dispatcher and the worker, for every identifier text and row list
SpecParsed == InitParsed /\ [][NextCore]_vars

\* a submitted job, the stream requests of MaxConns clients and the broadcasts of
\* its events
NextRegistry ==
    \/ Submit
    \/ HubSnapshot \/ HubSend
    \/ \E cid \in Conns :
        HubNotFound(cid) \/ HubConnect(cid) \/ HubYield(cid) \/ HubBreak(cid)
            \/ HubDisconnect(cid)

SpecRegistry == InitWith({HtmlRequest(IdentifierText(1))}) /\ [][NextRegistry]_vars

\* the consumer loop, the jobs that are published and processed, and cancel requests
NextConsumer == QPublish \/ consume \/ \E id \in Envelopes : QCancel(id)

SpecConsumer == InitWith({NoRequest}) /\ [][NextConsumer]_vars

\* the same, where the loop and the tasks always get to run
SpecConsumerLive == SpecConsumer /\ WF_vars(consume)

\* the manager of one process: calls that initialize it, the events of a routine
\* and the subscriber tasks
NextFederated ==
    \/ FedPublish
    \/ \E p \in Callers : initialize(p) \/ redis_subscriber(p)

SpecFederated == InitWith({NoRequest}) /\ [][NextFederated]_vars

\* the items of a batch that use the converter
NextConverter == \E i \in Renders : html_to_png(i)

SpecConverter == InitWith({NoRequest}) /\ [][NextConverter]_vars

\* one save job from its request to its end
NextSave ==
    \/ SaveSubmit
    \/ process_save_job
    \/ \E i \in 1..MaxPosters : process_single_save(i)

SpecSave == InitWith({NoRequest}) /\ [][NextSave]_vars

\* processing and one client of the stream endpoint that subscribes at any moment and
\* reads its stream without an idle timeout
NextSubscribe == NextCore \/ GwRead \/ GwConnect \/ GwYield \/ GwDisconnect

SpecSubscribe == Init /\ [][NextSubscribe]_vars

\* processing, cancel requests and one client that subscribes once the job is in a
\* terminal state
NextLateSubscriber ==
    \/ NextCore \/ cancel_job
    \/ GwReadLate \/ GwConnect \/ GwYield \/ GwTimeout \/ GwBackup \/ GwDisconnect

SpecLateSubscriber == Init /\ [][NextLateSubscriber]_vars

\* processing without restart and cancel, where every call that is awaited returns or
\* raises: a task that can take a step takes one, and so do the consumer and the
\* dispatcher
SpecLive ==
    /\ Init /\ [][NextCore]_vars
    /\ WF_vars(process_job \/ process_csv_job \/ process_single_ai_job)
    /\ WF_vars(Deliver \/ HandlerReturn \/ FallbackTaskEnd)
    /\ WF_vars(create_job)

\* a template generation job, its task and one client of its stream endpoint
NextTemplate ==
    generate_from_template \/ process_template_poster_task \/ stream_template_generation

SpecTemplate == Init /\ [][NextTemplate]_vars

\* ---- properties ----
JobExists == job.status # "none"

RowsOf(item) == {r \in DOMAIN posters : posters[r].item = item}
RowsIn(status) == {r \in DOMAIN posters : posters[r].status = status}
EventsNamed(names) == {k \in DOMAIN events : events[k].name \in names}

\* the events of the job that the stream has yielded to its client so far
GwReceived == SubSeq(events, g.seen + 1, g.next - 1)

\* the events in the queue of the client's connection: the ones published since the
\* connection was registered that the generator has not taken yet
Queued == IF g.pc \in {"wait", "backup"} THEN SubSeq(events, g.next, Len(events)) ELSE <<>>

SameCounters ==
    /\ job'.processed = job.processed
    /\ job'.success = job.success
    /\ job'.failure = job.failure

\* C1: once the persisted state of the job is completed, failed or cancelled, no step
\* (worker write, dispatcher's write of queued, cancel, redelivered envelope, error
\* handler) changes the state or the processed/success/failure counters
C1_TerminalIsFinal ==
    [][job.status \in Terminal => (job'.status = job.status /\ SameCounters)]_vars

\* C2: the persisted state only moves forward (pending->queued, queued->processing,
\* processing->{completed, failed, cancelled}): under every interleaving of the
\* dispatcher's write of queued and a worker that has dequeued the envelope, it never
\* moves from processing or from a terminal state back to queued
C2_NeverBackToQueued ==
    [][job.status \in {"processing"} \cup Terminal => job'.status # "queued"]_vars

\* C3: a task started for an envelope that was delivered when the job was already
\* terminal changes neither the job row nor the poster rows and publishes no event
C3_StaleRedeliveryHasNoEffect ==
    [][(w.stale /\ w'.stale /\ w' # w) =>
            (job' = job /\ posters' = posters /\ events' = events)]_vars

\* C4: after the envelope has been replayed the job has the rows and the counters of a
\* single delivery: one row per item, and success counts the completed rows
C4_ReplayKeepsRowsAndCounters ==
    /\ \A item \in 1..job.total : Cardinality(RowsOf(item)) <= 1
    /\ (w.pc = "idle" /\ job.status = "completed") =>
            job.success = Cardinality(RowsIn("completed"))

\* C5: at most one terminal event (job_completed or job_failed) is ever published for
\* the job, whatever the interleaving of completion, failure and cancel
C5_OneTerminalEvent == Cardinality(EventsNamed(TerminalEvents)) <= 1

\* C6: a job in a terminal state has processed = total and processed = success +
\* failure, except a job that failed at envelope level
C6_TerminalCountersComplete ==
    job.status \in Terminal =>
        \/ job.processed = job.total /\ job.processed = job.success + job.failure
        \/ job.status = "failed"

\* C7: after every write of the counters processed = success + failure and
\* processed <= total
C7_CountersConsistent ==
    /\ job.processed = job.success + job.failure
    /\ job.processed <= job.total

\* C7 witness: a redelivered job whose written counters hold a success and a failure
C7_Witness ==
    /\ topic.deliveries = 2
    /\ job.success >= 1
    /\ job.failure >= 1

\* C8: the persisted processed, success and failure counters never decrease
C8_CountersMonotonic ==
    [][JobExists =>
        /\ job'.processed >= job.processed
        /\ job'.success >= job.success
        /\ job'.failure >= job.failure]_vars

\* C9: every published poster_completed event is for an item that has a row in a
\* terminal status (completed or failed)
C9_PosterCompletedAfterTerminalRow ==
    \A k \in EventsNamed({"poster_completed"}) :
        \E r \in RowsOf(events[k].item) : posters[r].status \in {"completed", "failed"}

\* C10: a cancel request that found the job pending or queued leaves it cancelled
C10_CancelBeforeProcessing ==
    [][(c.pc = "stats" /\ c.saw \in {"pending", "queued"} /\ c'.pc = "idle"
            /\ crashes' = crashes) =>
        job'.status = "cancelled"]_vars

\* C11: a cancel request that found the job processing, while it still is processing,
\* leaves it cancelled, whichever path (bus consumer or synchronous fallback) runs it
C11_CancelDuringProcessing ==
    [][(c.pc = "stats" /\ c.saw = "processing" /\ job.status = "processing"
            /\ c'.pc = "idle" /\ crashes' = crashes) =>
        job'.status = "cancelled"]_vars

C13_PublishFailureLeavesPending ==
    ~topic.published => (job.status \in {"none", "pending"} /\ posters = <<>>)

\* C14: when the job is completed, every item counted in failure has had its
\* poster_completed(success=false) event published
C14_FailedItemsAreAnnounced ==
    job.status = "completed" =>
        Cardinality({k \in EventsNamed({"poster_completed"}) : ~events[k].ok}) = job.failure

\* C15: a job whose processing has started eventually is in a terminal state and
\* eventually has a terminal event published
C15_ProcessingEnds ==
    /\ (job.status = "processing") ~> (job.status \in Terminal)
    /\ (job.status = "processing") ~> (EventsNamed(TerminalEvents) # {})

\* C16: for a client that subscribed after the terminal event of the job was published,
\* a backup check that finds the job in a terminal state ends the stream with the
\* completion event of that state (job_completed for completed, job_failed for failed
\* and cancelled)
C16_BackupCheckClosesTerminalJob ==
    [][(g.pc = "backup" /\ g'.pc # "backup" /\ g'.synth # "error"
            /\ job.status \in Terminal
            /\ \E k \in EventsNamed(TerminalEvents) : k <= g.seen) =>
        /\ g'.pc = "closed"
        /\ g'.synth = IF job.status = "completed" THEN "job_completed" ELSE "job_failed"]_vars

\* C17: job_completed is the last event published for the job
C17_JobCompletedIsLast ==
    \A k \in EventsNamed({"job_completed"}) : k = Len(events)

\* C18: the processed values of the progress events a stream has yielded to its client
\* are strictly increasing
C18_ProgressStrictlyIncreasing ==
    \A i, j \in DOMAIN GwReceived :
        (i < j /\ GwReceived[i].name = "progress" /\ GwReceived[j].name = "progress") =>
            GwReceived[i].n < GwReceived[j].n

C20_CountersMatchRows ==
    /\ job.success = Cardinality(RowsIn("completed"))
    /\ job.failure = Cardinality(RowsIn("failed"))

\* C21: when the routine of an identifier-mode or row-mode job has ended and no publish
\* on the bus was refused, a published job_completed has its message on the results
\* topic and a published job_failed has its message on the errors topic
C21_TerminalEventOnBusAndHub ==
    (w.pc = "done" /\ d.kind \in {"html", "csv"} /\ w.bus # "refused") =>
        /\ EventsNamed({"job_completed"}) # {} => w.bus = "result"
        /\ EventsNamed({"job_failed"}) # {} => w.bus = "error"

\* C22: every write that moves the job into a terminal state (completed, failed,
\* cancelled) leaves completed_at set on the job row
C22_TerminalWriteSetsCompletedAt ==
    [][(job'.status \in Terminal /\ job'.status # job.status) => job'.completed_at]_vars

\* C23: a submission whose identifier text is empty or holds only blanks, commas and
\* newlines, or whose row list is empty, never gets a job row, a poster row, an
\* envelope on the requests topic, a processing task or an event
C23_EmptySubmissionRejected ==
    ((request.kind = "html" /\ \A i \in DOMAIN request.user_identifiers :
            request.user_identifiers[i] \in {" ", ",", "\n"})
        \/ (request.kind = "csv" /\ request.csv_data = 0)) =>
        /\ job = NoJob
        /\ posters = <<>>
        /\ ~topic.published
        /\ w = IdleW
        /\ events = <<>>

\* C23 witness: an identifier text that has a blank and a comma and nothing else was
\* submitted and rejected
C23_Witness ==
    /\ d.pc = "rejected"
    /\ request.kind = "html"
    /\ \E i \in DOMAIN request.user_identifiers : request.user_identifiers[i] = " "
    /\ \E i \in DOMAIN request.user_identifiers : request.user_identifiers[i] = ","
    /\ job = NoJob

\* C24: the total of an identifier-mode job is the number of distinct identifiers of
\* the submitted text
C24_TotalIsDistinctIdentifiers ==
    (request.kind = "html" /\ job.status # "none") =>
        LET items == identifier_items(request.user_identifiers)
        IN job.total = Cardinality({items[i] : i \in DOMAIN items})

\* C25: every event a stream client of a batch job is given, the ones taken from its
\* queue and the one the generator makes up itself, has a name of the vocabulary
\* connected, status, progress, poster_completed, job_completed, job_failed, log,
\* heartbeat
C25_EventNamesInVocabulary ==
    LET Vocabulary == {"connected", "status", "progress", "poster_completed",
                       "job_completed", "job_failed", "log", "heartbeat"}
    IN /\ \A k \in DOMAIN GwReceived : GwReceived[k].name \in Vocabulary
       /\ g.synth # "none" => g.synth \in Vocabulary

\* C26: the queue of a subscription never holds more events than a fixed capacity,
\* however slowly the client reads (stated for a capacity of four events; a job
\* with more items reaches any other capacity in the same way)
C26_QueueBounded ==
    LET Capacity == 4 IN Len(Queued) <= Capacity

C28_TemplateStreamEndsOnTerminalEvent ==
    (d.kind = "template" /\ g.pc = "closed"
        /\ \E k \in DOMAIN GwReceived : GwReceived[k].name = "poster_completed") =>
        /\ GwReceived[Len(GwReceived)].name \in TerminalEvents
        /\ Cardinality(EventsNamed(TerminalEvents)) = 1

C30_CrashWhileHandlingRedelivers ==
    [][(crashes' = crashes + 1 /\ w.path = "bus" /\ w.pc \notin {"idle", "done"}) =>
            (topic'.committed = 0 /\ topic'.position = 0)]_vars

\* C31: whenever a progress event with processed = k has been published for the job,
\* the processed counter of the job row is at least k
C31_ProgressAfterPersist ==
    \A k \in EventsNamed({"progress"}) : events[k].n <= job.processed

\* C32: at most one task of a requests envelope is running in the process, and the
\* handler of an envelope starts only when the task of every earlier envelope has
\* ended
C32_OneEnvelopeAtATime ==
    /\ Cardinality({id \in Envelopes : q.tasks[id] \in {"running", "cancelling"}}) <= 1
    /\ \A id \in Envelopes :
        q.tasks[id] # "none" =>
            \A earlier \in 1..(id - 1) : q.tasks[earlier] \in {"returned", "raised", "cancelled"}

\* C32 witness: the task of the second envelope runs after the first one has ended,
\* with a third envelope waiting on the topic
C32_Witness ==
    /\ q.tasks[1] = "returned"
    /\ q.tasks[2] = "running"
    /\ q.published = 3

\* C37: also when a job that is being processed is cancelled, every envelope that is
\* on the requests topic is eventually handed to the handler
C37_EnvelopesHandledAfterCancel ==
    \A id \in Envelopes : (q.published >= id) ~> (q.tasks[id] # "none")

\* C34: the process has at most one subscriber task on the channel
C34_OneSubscriberTask ==
    Cardinality({p \in Callers : fed.tasks[p] # "none"}) <= 1

\* C33: the queue of every registered connection holds the events of the job in
\* publish order and none of them twice
C33_EnqueuedOnceInOrder ==
    \A p \in fed.registered :
        \A i, j \in DOMAIN fed.queue[p] : i < j => fed.queue[p][i] < fed.queue[p][j]

\* C35: the process has launched at most one browser
C35_OneBrowser ==
    Cardinality(converter.launched) <= 1

\* C36: the stream of a client that was connected before the first event of a row-mode
\* job of one row, and that has closed on job_completed after the row succeeded, has
\* given after its status event, logs left aside: progress with processed 0,
\* progress with processed 1, poster_completed with success, job_completed
C36_SingleRowEventOrder ==
    LET named == SelectSeq(GwReceived, LAMBDA e : e.name # "log") IN
    (d.kind = "csv" /\ d.n = 1 /\ g.pc = "closed" /\ g.seen = 0 /\ job.success = 1
        /\ named # <<>> /\ named[Len(named)].name = "job_completed") =>
        /\ [k \in DOMAIN named |-> named[k].name]
                = <<"progress", "progress", "poster_completed", "job_completed">>
        /\ named[1].n = 0
        /\ named[2].n = 1
        /\ named[3].ok

\* C38: for every job kind the routine that is started for the job's envelope from
\* the bus is the routine the dispatcher starts itself when the publish fails
C38_BusRunsFallbackRoutine ==
    [][(w.pc = "idle" /\ w'.pc # "idle" /\ w'.path = "bus") =>
            w'.pc = FallbackRoutine(d.kind)]_vars

\* C39: at every point at which the save job can be read processed = success +
\* failed, and a completed save job has processed = total
C39_SaveCountersAgree ==
    /\ save.processed = save.success + save.failed
    /\ save.status = "completed" => save.processed = save.total

\* C40: a connection is in _connection_map exactly when it is in the set of its job
\* in _connections, the job has a key in _connections only while that set is not
\* empty, get_connection_count() is the number of connections that were made and
\* not yet disconnected, and disconnect of an id that is not registered changes
\* nothing
C40_RegistriesAgree ==
    /\ hub.connection_map = hub.connections
    /\ hub.has_key <=> hub.connections # {}
    /\ get_connection_count(hub)
            = Cardinality({cid \in Conns : hub.stream[cid] \in {"open", "finally"}})
    /\ \A cid \in Conns : cid \notin hub.connection_map => disconnect(hub, cid) = hub

\* C40 witness: two connections were registered and both were disconnected: the
\* key of the job is gone
C40_Witness ==
    /\ \A cid \in {1, 2} : hub.closed[cid] /\ hub.stream[cid] = "ended"
    /\ ~hub.has_key

====
